---- MODULE Spec2Model ----
(***************************************************************************)
(* Legislative Train scraper: the timer-triggered crawl of six theme       *)
(* pages, the discovery of file links, and the blob upload / metadata      *)
(* upsert of every file page.  The repository holds two handlers named     *)
(* legislative_scraper: src/scraper.py and src/function_app.py.  Both are  *)
(* modelled; the variable `variant` says which one is deployed.            *)
(*                                                                         *)
(* Strings are sequences of tokens.  Hrefs and URLs are sequences of path  *)
(* tokens chosen so that the two patterns the code matches ('/file-' and   *)
(* '/legislative-train/theme-') are token sequences; titles, digests and   *)
(* blob names are sequences of single characters.                          *)
(***************************************************************************)
EXTENDS Integers, Sequences, FiniteSets, TLC

(***************************************************************************)
(* Bounds of the model.                                                    *)
(***************************************************************************)
\* timer firings explored
MaxRuns == 2
\* failures injected by the environment (HTTP, blob store, database)
MaxFaults == 1
\* edits of the web site between two runs
MaxChanges == 1
\* anchors on a theme page in the link-discovery specification
MaxAnchors == 3

(***************************************************************************)
(* Program constants.                                                      *)
(***************************************************************************)
\* len(THEMES)
NumThemes == 6
\* the [:100] cut of the sanitized title
TitleCut == 100
\* the [:6] cut of the hex digest
IdCut == 6
\* the only status get_soup accepts
HTTP_OK == 200

THEMES == 1..NumThemes
BASE_URL == <<"https://www.europarl.europa.eu">>
ThemePrefix == <<"/", "legislative-train", "/", "theme-">>
FilePattern == <<"/", "file-">>

(***************************************************************************)
(* String helpers: str.startswith, the substring test of the CSS selector  *)
(* a[href*='/file-'], str.strip.                                           *)
(***************************************************************************)
startswith(s, p) ==
    /\ Len(p) <= Len(s)
    /\ SubSeq(s, 1, Len(p)) = p

contains(s, p) ==
    \E i \in 1..(Len(s) - Len(p) + 1) : SubSeq(s, i, i + Len(p) - 1) = p

Whitespace == {" "}

RECURSIVE lstrip(_)
lstrip(s) ==
    IF s # <<>> /\ Head(s) \in Whitespace THEN lstrip(Tail(s)) ELSE s

RECURSIVE rstrip(_)
rstrip(s) ==
    IF s # <<>> /\ s[Len(s)] \in Whitespace
    THEN rstrip(SubSeq(s, 1, Len(s) - 1))
    ELSE s

strip(s) == rstrip(lstrip(s))

(***************************************************************************)
(* The web site.  Hrefs that occur on theme pages, the absolute URLs of    *)
(* the file pages, and what a file page may show.                          *)
(***************************************************************************)
HrefFile1 == <<"/", "legislative-train", "/", "theme-", "x", "/", "file-", "1">>
HrefFile2 == <<"/", "legislative-train", "/", "theme-", "x", "/", "file-", "2">>
HrefFile3 == <<"/", "legislative-train", "/", "theme-", "y", "/", "file-", "1">>
HrefOther == <<"/", "other", "/", "file-", "2">>
HrefNotFile == <<"/", "legislative-train", "/", "theme-", "x", "/", "not-a-file">>
HrefNested == <<"/", "other", "/", "legislative-train", "/", "theme-", "x", "/", "file-", "1">>

Hrefs == {HrefFile1, HrefFile2, HrefFile3, HrefOther, HrefNotFile, HrefNested}

Url1 == BASE_URL \o HrefFile1
Url2 == BASE_URL \o HrefFile2
FileUrls == {Url1, Url2}

\* The page each theme URL serves: the anchors' hrefs in document order.
ThemePage(t) ==
    CASE t = 1 -> <<HrefOther, HrefNested>>
      [] t = 2 -> <<HrefFile1, HrefOther, HrefNotFile, HrefFile2, HrefFile1>>
      [] OTHER -> <<>>

TitleA == <<"E", "U", " ", "5", "5">>
TitleB == <<" ", "E", "U", ":", " ", "5", "5", " ">>
TitleC == <<"E", "T", "S">>
\* A file page: its h1 elements (none or one) and its content blocks.
FilePage(h1, blocks) == [h1 |-> h1, blocks |-> blocks]
FilePages == {FilePage(<<TitleA>>, <<"v1">>),
              FilePage(<<TitleB>>, <<"v2", "">>),
              FilePage(<<TitleC>>, <<"", "v2">>),
              FilePage(<<>>, <<"v1">>)}

\* What a server sends with a status other than 200.
ErrorFilePage == [h1 |-> << <<"4", "0", "4">> >>, blocks |-> <<"", "err">>]
ErrorThemeBodies(t) == {ThemePage(t)}

InitialSite == [u \in FileUrls |-> FilePage(<<TitleA>>, <<"v1">>)]

(***************************************************************************)
(* get_files_from_theme / the list comprehension of function_app.py:       *)
(* select the anchors whose href contains '/file-', keep those starting    *)
(* with '/legislative-train/theme-', prefix the origin, deduplicate.       *)
(***************************************************************************)
\* soup.select("a[href*='/file-']"): the anchors whose href contains '/file-'
select_file_anchors(anchors) ==
    SelectSeq(anchors, LAMBDA href : contains(href, FilePattern))

Range(s) == {s[i] : i \in DOMAIN s}

\* A soup is <<>> (Python's None) or <<document>>.
get_files_from_theme(soup) ==
    IF soup = <<>>
    THEN {}
    ELSE LET kept == SelectSeq(select_file_anchors(soup[1]),
                               LAMBDA href : href # <<>> /\ startswith(href, ThemePrefix))
             file_links == [i \in DOMAIN kept |-> BASE_URL \o kept[i]]
         IN  Range(file_links)

\* function_app.py line 40, followed by set(links) on line 42
function_app_links(anchors) ==
    LET kept == SelectSeq(select_file_anchors(anchors),
                          LAMBDA href : startswith(href, ThemePrefix))
        links == [i \in DOMAIN kept |-> BASE_URL \o kept[i]]
    IN  Range(links)

(***************************************************************************)
(* generate_id: hashlib.md5(url.encode('utf-8')).hexdigest(), tabulated    *)
(* for the two file URLs of the model   (the digests of the URL strings    *)
(* "https://www.europarl.europa.eu/legislative-train/theme-x/file-1", ...).*)
(***************************************************************************)
generate_id(url) ==
    CASE url = Url1 -> <<"5","2","6","b","d","b","e","6","2","7","0","c","3","a","5","a",
                         "5","f","1","2","7","5","7","c","1","6","3","6","f","4","c","d">>
      [] url = Url2 -> <<"7","0","b","8","c","9","3","d","f","3","a","5","7","3","a","7",
                         "5","a","a","8","4","2","a","7","0","7","e","2","e","d","d","2">>

Take(s, n) == SubSeq(s, 1, IF Len(s) < n THEN Len(s) ELSE n)

(***************************************************************************)
(* Detail extraction and identifiers.                                      *)
(***************************************************************************)
Untitled == <<"U", "n", "t", "i", "t", "l", "e", "d">>

\* title_el.text.strip() if title_el else "Untitled"
extract_title(page) == IF page.h1 = <<>> THEN Untitled ELSE strip(page.h1[1])

\* the non-empty content blocks, in document order
extract_text(page) == SelectSeq(page.blocks, LAMBDA b : b # "")

SafeChars == {"E", "U", "T", "S", "5", "4", "0", "n", "t", "i", "l", "e", "d", "_", "-"}

\* re.sub(r"[^a-zA-Z0-9_-]+", "_", title): every run of other characters
\* becomes one underscore.
RECURSIVE sanitize(_, _)
sanitize(s, inRun) ==
    IF s = <<>> THEN <<>>
    ELSE IF Head(s) \in SafeChars THEN <<Head(s)>> \o sanitize(Tail(s), FALSE)
    ELSE IF inRun THEN sanitize(Tail(s), TRUE)
    ELSE <<"_">> \o sanitize(Tail(s), TRUE)

safe_filename(title, doc_id) ==
    Take(sanitize(title, FALSE), TitleCut) \o <<"_">> \o Take(doc_id, IdCut) \o <<".txt">>

\* function_app.py: f"{doc_id}.txt"
blob_name(doc_id) == doc_id \o <<".txt">>


(***************************************************************************)
(* State.                                                                  *)
(***************************************************************************)
VARIABLES
    variant,          \* which handler is deployed: "scraper" or "function_app"
    pc,               \* "idle", "theme" (head of the theme loop), "file" (head
                      \* of the link loop), "upload", "upsert"
    run,              \* timer firings so far
    themeIdx,         \* index into THEMES of the theme being crawled
    file_urls,        \* links of the current theme still to be processed
    cur,              \* the item between its extraction and its upsert
    total_processed,  \* scraper.py's running count
    summary,          \* the count in the last "Scraper finished" line, -1 if none
    log,              \* warning and error records of the current run
    container_exists, \* the blob container has been created
    blobs,            \* blob store: blob name -> content
    db,               \* document database: the set of stored items
    site,             \* file URL -> the page it serves
    faults,           \* failures injected so far
    changes,          \* site edits so far
    last,             \* the step just taken and its outcome
    crawl,            \* theme -> "pending", "ok" or "failed" in this run
    discovered,       \* <<theme, url>> links discovered in this run
    attempted,        \* <<theme, url>> links whose processing started in this run
    okItems,          \* <<theme, url>> links uploaded and upserted in this run
    clean,            \* no failure so far in this run
    uploads,          \* the successful uploads: url, sanitized title, blob name
    latest,           \* url -> << >> or <<name and text of its last successful upload>>
    written,          \* blob name -> text of the last successful upload under it
    hist,             \* snapshots of the stores at the end of the last two finished runs
    in_page,          \* link-discovery specification: the anchors given
    out_links         \* link-discovery specification: the links returned

vars == <<variant, pc, run, themeIdx, file_urls, cur, total_processed, summary, log,
          container_exists, blobs, db, site, faults, changes, last, crawl,
          discovered, attempted, okItems, clean, uploads, latest, written, hist,
          in_page, out_links>>

runVars == <<crawl, discovered, attempted, okItems>>
uploadVars == <<uploads, latest, written>>
linkVars == <<in_page, out_links>>

ThemeSlug(t) ==
    CASE t = 1 -> "a-european-green-deal"
      [] t = 2 -> "a-europe-fit-for-the-digital-age"
      [] t = 3 -> "an-economy-that-works-for-people"
      [] t = 4 -> "a-stronger-europe-in-the-world"
      [] t = 5 -> "promoting-our-european-way-of-life"
      [] OTHER -> "a-new-push-for-european-democracy"

ThemeUrl(t) == BASE_URL \o ThemePrefix \o <<ThemeSlug(t)>>

NoItem == [url |-> <<>>, status |-> 0, title |-> <<>>, text |-> <<>>, id |-> <<>>,
           name |-> <<>>]
Step(op, outcome, url) == [op |-> op, outcome |-> outcome, theme |-> themeIdx, url |-> url]
RunStep(op, outcome) == [op |-> op, outcome |-> outcome, theme |-> 1, url |-> <<>>]
LogRecord(level, about) == [level |-> level, about |-> about]

(***************************************************************************)
(* HTTP.  A response either raised in requests.get or carries a status     *)
(* and a body.                                                             *)
(***************************************************************************)
Response(status, body) == [raised |-> FALSE, status_code |-> status, body |-> body]

\* (the body of a response that raised is never read)
ThemeResponses(t) ==
    {Response(HTTP_OK, ThemePage(t)), [raised |-> TRUE, status_code |-> 0, body |-> <<>>]}
        \cup {Response(404, b) : b \in ErrorThemeBodies(t)}

FileResponses(u) ==
    {Response(HTTP_OK, site[u]), Response(404, ErrorFilePage),
     [raised |-> TRUE, status_code |-> 0, body |-> ErrorFilePage]}

IsFault(resp) == resp.raised \/ resp.status_code # HTTP_OK

Outcome(resp) ==
    IF resp.raised THEN "raised"
    ELSE IF resp.status_code # HTTP_OK THEN "status"
    ELSE "ok"

\* get_soup: None on a status other than 200 and on any exception
get_soup(resp) ==
    IF resp.raised THEN <<>>
    ELSE IF resp.status_code # HTTP_OK THEN <<>>
    ELSE <<resp.body>>

get_soup_log(url, resp) ==
    IF resp.raised THEN {LogRecord("error", url)}
    ELSE IF resp.status_code # HTTP_OK THEN {LogRecord("warning", url)}
    ELSE {}

\* scraper.py: the links of a theme, from the response to its page
scraper_discover(resp) == get_files_from_theme(get_soup(resp))

\* function_app.py: the same; only an exception gives no links
function_app_discover(resp) ==
    IF resp.raised THEN {} ELSE function_app_links(resp.body)

\* blob_container.url / the prefix of blob_client.url
container_url == <<"https://account.blob.core.windows.net", "/", "container">>

\* container.upsert_item: replace the item with this id, or insert it
upsert_item_insert(items, item) == items \cup {item}
upsert_item(items, item) == {r \in items : r.id # item.id} \cup {item}

\* upload_blob(..., overwrite=True)
upload_blob_keep(store, name, data) ==
    IF name \in DOMAIN store THEN store ELSE (name :> data) @@ store
upload_blob(store, name, data) == (name :> data) @@ store

\* The statement after upload_blob runs only when upload_blob returned.
proceed_always(ok) == TRUE
proceed_to_upsert(ok) == ok

\* total_processed += 1 stands after upsert_item, inside the try block.
Counted_always(n, ok) == n + 1
Counted(n, ok) == IF ok THEN n + 1 ELSE n

\* The except block of an item only logs: the blob store is left as it is.
on_item_error_delete(store, name) == [n \in DOMAIN store \ {name} |-> store[n]]
on_item_error(store, name) == store

\* Bookkeeping of an upload that returned.
Uploaded(ok) ==
    IF ok
    THEN /\ uploads' = uploads \cup {[url |-> cur.url,
                                       title |-> Take(sanitize(cur.title, FALSE), TitleCut),
                                       name |-> cur.name]}
         /\ latest' = [latest EXCEPT ![cur.url] = <<[name |-> cur.name, text |-> cur.text]>>]
         /\ written' = (cur.name :> cur.text) @@ written
    ELSE UNCHANGED uploadVars

\* The two latest finished runs are remembered.
Remember(snaps, snap) ==
    IF Len(snaps) = 2 THEN <<snaps[2], snap>> ELSE Append(snaps, snap)

Snapshot == [ids |-> {r.id : r \in db}, names |-> DOMAIN blobs,
             clean |-> clean, site |-> site]

(***************************************************************************)
(* Loop control.  EnterTheme: the link loop of a theme starts on the links *)
(* found, a theme without links (or whose fetch failed) is followed by the *)
(* next theme.  Continue: after an item, whether it failed or not, the     *)
(* next link of the theme, or the next theme when none is left.            *)
(***************************************************************************)
EnterTheme_abort(links, failed) ==
    IF failed
    THEN file_urls' = {} /\ pc' = "theme" /\ themeIdx' = NumThemes + 1
    ELSE /\ file_urls' = links
         /\ IF links = {}
            THEN pc' = "theme" /\ themeIdx' = themeIdx + 1
            ELSE pc' = "file" /\ themeIdx' = themeIdx

EnterTheme(links, failed) ==
    /\ file_urls' = links
    /\ IF links = {}
       THEN pc' = "theme" /\ themeIdx' = themeIdx + 1
       ELSE pc' = "file" /\ themeIdx' = themeIdx

Continue_break(rest, failed) ==
    IF failed
    THEN file_urls' = {} /\ pc' = "theme" /\ themeIdx' = themeIdx + 1
    ELSE /\ file_urls' = rest
         /\ IF rest = {}
            THEN pc' = "theme" /\ themeIdx' = themeIdx + 1
            ELSE pc' = "file" /\ themeIdx' = themeIdx

Continue(rest, failed) ==
    /\ file_urls' = rest
    /\ IF rest = {}
       THEN pc' = "theme" /\ themeIdx' = themeIdx + 1
       ELSE pc' = "file" /\ themeIdx' = themeIdx

CanFail == faults < MaxFaults

Fault(failed) ==
    /\ faults' = IF failed THEN faults + 1 ELSE faults
    /\ clean' = (clean /\ ~failed)

TypeOK ==
    /\ variant \in {"scraper", "function_app"}
    /\ pc \in {"idle", "theme", "file", "upload", "upsert"}
    /\ run \in 0..MaxRuns
    /\ themeIdx \in 1..(NumThemes + 1)
    /\ file_urls \subseteq FileUrls
    /\ total_processed \in Nat
    /\ faults \in 0..MaxFaults
    /\ changes \in 0..MaxChanges

Init ==
    /\ variant \in {"scraper", "function_app"}
    /\ pc = "idle"
    /\ run = 0
    /\ themeIdx = 1
    /\ file_urls = {}
    /\ cur = NoItem
    /\ total_processed = 0
    /\ summary = -1
    /\ log = {}
    /\ container_exists = FALSE
    /\ blobs = << >>
    /\ db = {}
    /\ site = InitialSite
    /\ faults = 0
    /\ changes = 0
    /\ last = RunStep("none", "none")
    /\ crawl = [t \in THEMES |-> "pending"]
    /\ discovered = {}
    /\ attempted = {}
    /\ okItems = {}
    /\ clean = TRUE
    /\ uploads = {}
    /\ latest = [u \in FileUrls |-> << >>]
    /\ written = << >>
    /\ hist = << >>
    /\ in_page = << >>
    /\ out_links = {}

\* What every run starts from.
StartRun(ok) ==
    /\ run' = run + 1
    /\ faults' = IF ok THEN faults ELSE faults + 1
    /\ clean' = ok
    /\ crawl' = [t \in THEMES |-> "pending"]
    /\ discovered' = {}
    /\ attempted' = {}
    /\ okItems' = {}
    /\ file_urls' = {}

(***************************************************************************)
(* src/scraper.py                                                          *)
(***************************************************************************)
\* Timer trigger, lines 80-102: construct both clients, create the blob
\* container when it is missing; any exception is logged and ends the run.
scraper_init_clients ==
    /\ variant = "scraper"
    /\ pc = "idle"
    /\ run < MaxRuns
    /\ \E ok \in BOOLEAN :
        /\ ok \/ CanFail
        /\ StartRun(ok)
        /\ IF ok
           THEN /\ container_exists' = TRUE
                /\ pc' = "theme"
                /\ themeIdx' = 1
                /\ total_processed' = 0
                /\ log' = {}
                /\ last' = RunStep("init", "ok")
           ELSE /\ pc' = "idle"
                /\ log' = {LogRecord("error", <<"init">>)}
                /\ last' = RunStep("init", "raised")
                /\ UNCHANGED <<container_exists, themeIdx, total_processed>>
    /\ UNCHANGED <<variant, cur, summary, blobs, db, uploadVars, site, changes, hist>>
    /\ UNCHANGED linkVars

\* Lines 104-106 with get_files_from_theme and get_soup: fetch the theme
\* page and collect its file links; a failed fetch gives no links.
scraper_crawl_theme ==
    /\ variant = "scraper"
    /\ pc = "theme"
    /\ themeIdx <= NumThemes
    /\ \E resp \in ThemeResponses(themeIdx) :
        LET file_links == scraper_discover(resp) IN
        /\ IsFault(resp) => CanFail
        /\ Fault(IsFault(resp))
        /\ log' = log \cup get_soup_log(ThemeUrl(themeIdx), resp)
        /\ crawl' = [crawl EXCEPT ![themeIdx] = IF IsFault(resp) THEN "failed" ELSE "ok"]
        /\ discovered' = discovered \cup {<<themeIdx, u>> : u \in file_links}
        /\ EnterTheme(file_links, IsFault(resp))
        /\ last' = Step("crawl", Outcome(resp), <<>>)
    /\ UNCHANGED <<variant, run, cur, total_processed, summary, container_exists,
                   blobs, db, uploadVars, site, changes, attempted, okItems, hist>>
    /\ UNCHANGED linkVars

\* Lines 108-134: take the next link, fetch its page, extract the fields and
\* derive the identifiers.  No document: continue.  An exception: logged.
scraper_fetch_file ==
    /\ variant = "scraper"
    /\ pc = "file"
    /\ \E file_url \in file_urls : \E resp \in FileResponses(file_url), boom \in BOOLEAN :
        LET soup == get_soup(resp)
            failed == IsFault(resp) \/ boom
            title == extract_title(soup[1])
            doc_id == generate_id(file_url)
        IN
        /\ boom => ~IsFault(resp)
        /\ failed => CanFail
        /\ Fault(failed)
        /\ attempted' = attempted \cup {<<themeIdx, file_url>>}
        /\ IF soup = <<>>
           THEN /\ log' = log \cup get_soup_log(file_url, resp)
                /\ cur' = NoItem
                /\ Continue(file_urls \ {file_url}, FALSE)
                /\ last' = Step("fetch", Outcome(resp), file_url)
           ELSE IF boom
           THEN /\ log' = log \cup {LogRecord("error", file_url)}
                /\ cur' = NoItem
                /\ Continue(file_urls \ {file_url}, TRUE)
                /\ last' = Step("fetch", "extract_raised", file_url)
           ELSE /\ log' = log
                /\ cur' = [url |-> file_url,
                           status |-> resp.status_code,
                           title |-> title,
                           text |-> extract_text(soup[1]),
                           id |-> doc_id,
                           name |-> safe_filename(title, doc_id)]
                /\ file_urls' = file_urls \ {file_url}
                /\ pc' = "upload"
                /\ themeIdx' = themeIdx
                /\ last' = Step("fetch", "ok", file_url)
    /\ UNCHANGED <<variant, run, total_processed, summary, container_exists,
                   blobs, db, uploadVars, site, changes, crawl, discovered, okItems, hist>>
    /\ UNCHANGED linkVars

\* Lines 136-139: upload the text under safe_filename with overwrite=True.
scraper_upload_blob ==
    /\ variant = "scraper"
    /\ pc = "upload"
    /\ \E ok \in BOOLEAN :
        /\ ok \/ CanFail
        /\ Fault(~ok)
        /\ blobs' = IF ok THEN upload_blob(blobs, cur.name, cur.text)
                    ELSE on_item_error(blobs, cur.name)
        /\ Uploaded(ok)
        /\ log' = IF ok THEN log ELSE log \cup {LogRecord("error", cur.url)}
        /\ last' = Step("upload", IF ok THEN "ok" ELSE "raised", cur.url)
        /\ IF proceed_to_upsert(ok)
           THEN /\ pc' = "upsert"
                /\ UNCHANGED <<cur, themeIdx, file_urls>>
           ELSE /\ cur' = NoItem
                /\ Continue(file_urls, TRUE)
    /\ UNCHANGED <<variant, run, total_processed, summary, container_exists, db,
                   site, changes, hist>>
    /\ UNCHANGED runVars
    /\ UNCHANGED linkVars

\* Lines 141-162: build the metadata item, upsert it, count it.
scraper_upsert_item ==
    /\ variant = "scraper"
    /\ pc = "upsert"
    /\ \E ok \in BOOLEAN :
        LET metadata_item == [id |-> cur.id,
                              title |-> cur.title,
                              original_url |-> cur.url,
                              blob_storage_url |-> container_url \o <<"/">> \o cur.name,
                              blob_filename |-> cur.name,
                              theme_source |-> ThemeUrl(themeIdx),
                              scraped_at |-> run]
        IN
        /\ ok \/ CanFail
        /\ Fault(~ok)
        /\ db' = IF ok THEN upsert_item(db, metadata_item) ELSE db
        /\ blobs' = IF ok THEN blobs ELSE on_item_error(blobs, cur.name)
        /\ total_processed' = Counted(total_processed, ok)
        /\ okItems' = IF ok THEN okItems \cup {<<themeIdx, cur.url>>} ELSE okItems
        /\ log' = IF ok THEN log ELSE log \cup {LogRecord("error", cur.url)}
        /\ last' = Step("upsert", IF ok THEN "ok" ELSE "raised", cur.url)
        /\ cur' = NoItem
        /\ Continue(file_urls, ~ok)
    /\ UNCHANGED <<variant, run, summary, container_exists, uploadVars,
                   site, changes, crawl, discovered, attempted, hist>>
    /\ UNCHANGED linkVars

\* Line 164: the theme loop is over; emit the count.
scraper_finish ==
    /\ variant = "scraper"
    /\ pc = "theme"
    /\ themeIdx > NumThemes
    /\ summary' = total_processed
    /\ pc' = "idle"
    /\ hist' = Remember(hist, Snapshot)
    /\ last' = RunStep("finish", "ok")
    /\ themeIdx' = 1
    /\ UNCHANGED <<variant, run, file_urls, cur, total_processed, log, container_exists,
                   blobs, db, uploadVars, site, faults, changes, clean>>
    /\ UNCHANGED runVars
    /\ UNCHANGED linkVars

(***************************************************************************)
(* src/function_app.py                                                     *)
(***************************************************************************)
\* Timer trigger, lines 10-34: construct both clients, create the blob
\* container when it is missing.  Nothing catches an exception here: it
\* leaves the handler.
function_app_init_clients ==
    /\ variant = "function_app"
    /\ pc = "idle"
    /\ run < MaxRuns
    /\ \E ok \in BOOLEAN :
        /\ ok \/ CanFail
        /\ StartRun(ok)
        /\ log' = {}
        /\ IF ok
           THEN /\ container_exists' = TRUE
                /\ pc' = "theme"
                /\ themeIdx' = 1
                /\ last' = RunStep("init", "ok")
           ELSE /\ pc' = "idle"
                /\ last' = RunStep("init", "raised")
                /\ UNCHANGED <<container_exists, themeIdx>>
    /\ UNCHANGED <<variant, cur, total_processed, summary, blobs, db, uploadVars,
                   site, changes, hist>>
    /\ UNCHANGED linkVars

\* Lines 36-42 and 70-71: fetch the theme page and collect its file links.
\* The status is not looked at; an exception is logged and the theme skipped.
function_app_crawl_theme ==
    /\ variant = "function_app"
    /\ pc = "theme"
    /\ themeIdx <= NumThemes
    /\ \E r \in ThemeResponses(themeIdx) :
        LET links == function_app_discover(r) IN
        /\ IsFault(r) => CanFail
        /\ Fault(IsFault(r))
        /\ log' = IF r.raised THEN log \cup {LogRecord("error", ThemeUrl(themeIdx))} ELSE log
        /\ crawl' = [crawl EXCEPT ![themeIdx] = IF IsFault(r) THEN "failed" ELSE "ok"]
        /\ discovered' = discovered \cup {<<themeIdx, u>> : u \in links}
        /\ EnterTheme(links, IsFault(r))
        /\ last' = Step("crawl", Outcome(r), <<>>)
    /\ UNCHANGED <<variant, run, cur, total_processed, summary, container_exists,
                   blobs, db, uploadVars, site, changes, attempted, okItems, hist>>
    /\ UNCHANGED linkVars

\* Lines 42-54: take the next link, fetch its page, extract title and text,
\* derive the id and the blob name.  The status is not looked at.
function_app_fetch_file ==
    /\ variant = "function_app"
    /\ pc = "file"
    /\ \E link \in file_urls : \E f_r \in FileResponses(link), boom \in BOOLEAN :
        LET failed == IsFault(f_r) \/ boom
            doc_id == generate_id(link)
        IN
        /\ boom => ~IsFault(f_r)
        /\ failed => CanFail
        /\ Fault(failed)
        /\ attempted' = attempted \cup {<<themeIdx, link>>}
        /\ IF f_r.raised \/ boom
           THEN /\ log' = log \cup {LogRecord("error", link)}
                /\ cur' = NoItem
                /\ Continue(file_urls \ {link}, TRUE)
                /\ last' = Step("fetch", IF f_r.raised THEN "raised" ELSE "extract_raised", link)
           ELSE /\ log' = log
                /\ cur' = [url |-> link,
                           status |-> f_r.status_code,
                           title |-> extract_title(f_r.body),
                           text |-> extract_text(f_r.body),
                           id |-> doc_id,
                           name |-> blob_name(doc_id)]
                /\ file_urls' = file_urls \ {link}
                /\ pc' = "upload"
                /\ themeIdx' = themeIdx
                /\ last' = Step("fetch", Outcome(f_r), link)
    /\ UNCHANGED <<variant, run, total_processed, summary, container_exists,
                   blobs, db, uploadVars, site, changes, crawl, discovered, okItems, hist>>
    /\ UNCHANGED linkVars

\* Line 57: upload_blob(name=blob_name, data=text, overwrite=True)
function_app_upload_blob ==
    /\ variant = "function_app"
    /\ pc = "upload"
    /\ \E ok \in BOOLEAN :
        /\ ok \/ CanFail
        /\ Fault(~ok)
        /\ blobs' = IF ok THEN upload_blob(blobs, cur.name, cur.text)
                    ELSE on_item_error(blobs, cur.name)
        /\ Uploaded(ok)
        /\ log' = IF ok THEN log ELSE log \cup {LogRecord("error", cur.url)}
        /\ last' = Step("upload", IF ok THEN "ok" ELSE "raised", cur.url)
        /\ IF proceed_to_upsert(ok)
           THEN /\ pc' = "upsert"
                /\ UNCHANGED <<cur, themeIdx, file_urls>>
           ELSE /\ cur' = NoItem
                /\ Continue(file_urls, TRUE)
    /\ UNCHANGED <<variant, run, total_processed, summary, container_exists, db,
                   site, changes, hist>>
    /\ UNCHANGED runVars
    /\ UNCHANGED linkVars

\* Lines 58-69: upsert the item; an exception is logged with the link.
function_app_upsert_item ==
    /\ variant = "function_app"
    /\ pc = "upsert"
    /\ \E ok \in BOOLEAN :
        LET item == [id |-> cur.id,
                     url |-> cur.url,
                     title |-> cur.title,
                     theme |-> ThemeUrl(themeIdx),
                     blob_url |-> container_url \o <<"/">> \o cur.name,
                     scraped_at |-> run]
        IN
        /\ ok \/ CanFail
        /\ Fault(~ok)
        /\ db' = IF ok THEN upsert_item(db, item) ELSE db
        /\ blobs' = IF ok THEN blobs ELSE on_item_error(blobs, cur.name)
        /\ okItems' = IF ok THEN okItems \cup {<<themeIdx, cur.url>>} ELSE okItems
        /\ log' = IF ok THEN log ELSE log \cup {LogRecord("error", cur.url)}
        /\ last' = Step("upsert", IF ok THEN "ok" ELSE "raised", cur.url)
        /\ cur' = NoItem
        /\ Continue(file_urls, ~ok)
    /\ UNCHANGED <<variant, run, total_processed, summary, container_exists,
                   uploadVars, site, changes, crawl, discovered, attempted, hist>>
    /\ UNCHANGED linkVars

\* The theme loop of line 36 is over: the handler returns.
function_app_finish ==
    /\ variant = "function_app"
    /\ pc = "theme"
    /\ themeIdx > NumThemes
    /\ pc' = "idle"
    /\ hist' = Remember(hist, Snapshot)
    /\ last' = RunStep("finish", "ok")
    /\ themeIdx' = 1
    /\ UNCHANGED <<variant, run, file_urls, cur, total_processed, summary, log,
                   container_exists, blobs, db, uploadVars, site, faults, changes, clean>>
    /\ UNCHANGED runVars
    /\ UNCHANGED linkVars

(***************************************************************************)
(* The environment: the site changes a file page between two runs.         *)
(***************************************************************************)
SiteChange ==
    /\ pc = "idle"
    /\ run >= 1
    /\ run < MaxRuns
    /\ changes < MaxChanges
    /\ \E u \in FileUrls, page \in FilePages :
        /\ page # site[u]
        /\ site' = [site EXCEPT ![u] = page]
    /\ changes' = changes + 1
    /\ last' = RunStep("site", "ok")
    /\ UNCHANGED <<variant, pc, run, themeIdx, file_urls, cur, total_processed, summary,
                   log, container_exists, blobs, db, uploadVars, faults, clean, hist>>
    /\ UNCHANGED runVars
    /\ UNCHANGED linkVars

Next ==
    \/ scraper_init_clients
    \/ scraper_crawl_theme
    \/ scraper_fetch_file
    \/ scraper_upload_blob
    \/ scraper_upsert_item
    \/ scraper_finish
    \/ function_app_init_clients
    \/ function_app_crawl_theme
    \/ function_app_fetch_file
    \/ function_app_upload_blob
    \/ function_app_upsert_item
    \/ function_app_finish
    \/ SiteChange

Spec == Init /\ [][Next]_vars

(***************************************************************************)
(* Link discovery on its own: every theme page of up to MaxAnchors anchors *)
(* over Hrefs, every kind of response, both handlers.                      *)
(***************************************************************************)
RECURSIVE AnchorLists(_)
AnchorLists(n) ==
    IF n = 0 THEN {<< >>}
    ELSE AnchorLists(n - 1)
            \cup {Append(s, h) : s \in {x \in AnchorLists(n - 1) : Len(x) = n - 1}, h \in Hrefs}

PageResponses(page) ==
    {Response(HTTP_OK, page), Response(404, page),
     [raised |-> TRUE, status_code |-> 0, body |-> <<>>]}

InitLinks ==
    /\ variant \in {"scraper", "function_app"}
    /\ pc = "idle"
    /\ run = 0
    /\ themeIdx = 1
    /\ file_urls = {}
    /\ cur = NoItem
    /\ total_processed = 0
    /\ summary = -1
    /\ log = {}
    /\ container_exists = FALSE
    /\ blobs = << >>
    /\ db = {}
    /\ site = InitialSite
    /\ faults = 0
    /\ changes = 0
    /\ last = RunStep("none", "none")
    /\ crawl = [t \in THEMES |-> "pending"]
    /\ discovered = {}
    /\ attempted = {}
    /\ okItems = {}
    /\ clean = TRUE
    /\ uploads = {}
    /\ latest = [u \in FileUrls |-> << >>]
    /\ written = << >>
    /\ hist = << >>
    /\ in_page \in AnchorLists(MaxAnchors)
    /\ out_links = {}

scraper_links_of_page ==
    /\ variant = "scraper"
    /\ last.op = "none"
    /\ \E resp \in PageResponses(in_page) :
        /\ out_links' = scraper_discover(resp)
        /\ last' = RunStep("discover", Outcome(resp))
    /\ UNCHANGED <<variant, pc, run, themeIdx, file_urls, cur, total_processed, summary,
                   log, container_exists, blobs, db, site, faults, changes, clean,
                   uploadVars, hist, in_page>>
    /\ UNCHANGED runVars

function_app_links_of_page ==
    /\ variant = "function_app"
    /\ last.op = "none"
    /\ \E r \in PageResponses(in_page) :
        /\ out_links' = function_app_discover(r)
        /\ last' = RunStep("discover", Outcome(r))
    /\ UNCHANGED <<variant, pc, run, themeIdx, file_urls, cur, total_processed, summary,
                   log, container_exists, blobs, db, site, faults, changes, clean,
                   uploadVars, hist, in_page>>
    /\ UNCHANGED runVars

NextLinks == scraper_links_of_page \/ function_app_links_of_page

SpecLinks == InitLinks /\ [][NextLinks]_vars

(***************************************************************************)
(* Properties.                                                             *)
(***************************************************************************)
\* The links a theme page should give: base origin + href for every href
\* that contains '/file-' and begins with '/legislative-train/theme-'.
ExpectedLinks(page) ==
    {BASE_URL \o h : h \in {x \in Range(page) :
                               contains(x, FilePattern) /\ startswith(x, ThemePrefix)}}

LinksOf(t, pairs) == {p[2] : p \in {q \in pairs : q[1] = t}}
Finished == last.op = "finish"
ItemOps == {"fetch", "upload", "upsert"}
Exceptions == {"raised", "extract_raised"}

UploadsOf(u) == {e \in uploads : e.url = u}
NamesOf(u) == {e.name : e \in UploadsOf(u)}
TitlesOf(u) == {e.title : e \in UploadsOf(u)}

\* the blob a stored item names
BlobRef(r) ==
    IF variant = "scraper"
    THEN r.blob_filename
    ELSE SubSeq(r.blob_url, Len(container_url) + 2, Len(r.blob_url))

\* C1: theme-level fault isolation.  When a run has finished, every theme
\* has been fetched whatever happened to the others, and for every theme
\* whose fetch did not fail exactly the links of its page were discovered
\* and every one of them was processed.
C1_ThemeFaultIsolation ==
    Finished =>
        \A t \in THEMES :
            /\ crawl[t] # "pending"
            /\ crawl[t] = "ok" =>
                /\ LinksOf(t, discovered) = ExpectedLinks(ThemePage(t))
                /\ LinksOf(t, attempted) = ExpectedLinks(ThemePage(t))

\* A finished run in which the first theme failed and a file of the
\* second theme was uploaded and upserted.
C1_Witness ==
    /\ Finished
    /\ crawl[1] = "failed"
    /\ <<2, Url1>> \in okItems

\* C2: run summary of scraper.py.  The count emitted at the end of a run is
\* the number of items of this run whose upload and upsert both succeeded.
C2_RunSummary ==
    (variant = "scraper" /\ Finished) => summary = Cardinality(okItems)

\* A finished run of scraper.py that counted one item out of two.
C2_Witness ==
    /\ variant = "scraper"
    /\ Finished
    /\ summary = 1
    /\ Cardinality(attempted) = 2

\* C3: idempotent re-run.  The database never holds two items with one id;
\* a run without failure rewrites every item; two successive runs without
\* failure over an unchanged site leave the same ids and the same blob names.
C3_IdempotentRerun ==
    /\ \A r1, r2 \in db : r1.id = r2.id => r1 = r2
    /\ (Finished /\ clean) => \A r \in db : r.scraped_at = run
    /\ \A i \in 1..(Len(hist) - 1) :
        (hist[i].clean /\ hist[i + 1].clean /\ hist[i].site = hist[i + 1].site) =>
            /\ hist[i + 1].ids = hist[i].ids
            /\ hist[i + 1].names = hist[i].names

\* Two runs without failure over the same site, two items stored.
C3_Witness ==
    /\ Len(hist) >= 2
    /\ hist[1].clean /\ hist[2].clean
    /\ hist[1].site = hist[2].site
    /\ Cardinality(hist[2].ids) = 2
    /\ \A r \in db : r.scraped_at = 2

\* C4: item-level fault isolation.  An exception at any step of an item is
\* logged with the item's URL and the loop goes on with the remaining links
\* of the theme, or with the next theme; at the end of the run every
\* discovered link has been attempted.
C4_ItemFaultIsolation ==
    /\ (last.op \in ItemOps /\ last.outcome \in Exceptions) =>
        /\ LogRecord("error", last.url) \in log
        /\ file_urls = LinksOf(last.theme, discovered) \ LinksOf(last.theme, attempted)
        /\ file_urls # {} => (pc = "file" /\ themeIdx = last.theme)
        /\ file_urls = {} => (pc = "theme" /\ themeIdx = last.theme + 1)
    /\ Finished => attempted = discovered

\* The second link of theme 2 has just been stored after the first one
\* raised and was logged.
C4_Witness ==
    /\ last.op = "upsert" /\ last.outcome = "ok" /\ last.theme = 2
    /\ \E u \in FileUrls :
        /\ u # last.url
        /\ <<2, u>> \in attempted \ okItems
        /\ LogRecord("error", u) \in log

\* C5: fatal initialisation.  When constructing a client fails, the failure
\* is logged and the run ends with no theme fetched and no item touched.
C5_FatalInit ==
    (last.op = "init" /\ last.outcome = "raised") =>
        /\ LogRecord("error", <<"init">>) \in log
        /\ pc = "idle"
        /\ \A t \in THEMES : crawl[t] = "pending"
        /\ attempted = {}
        /\ okItems = {}

\* C6: a failed detail fetch skips the item.  After a fetch that returned a
\* status other than 200 or raised, no item is in flight and the link is
\* not counted; an item on its way to the stores was fetched with 200.
C6_FailedFetchSkips ==
    /\ (last.op = "fetch" /\ last.outcome \in {"status", "raised"}) =>
        /\ pc \in {"file", "theme"}
        /\ cur = NoItem
        /\ <<last.theme, last.url>> \notin okItems
    /\ pc \in {"upload", "upsert"} => cur.status = HTTP_OK

\* C7 as stated: at most one blob per detail URL, whatever its title was,
\* holding the text of the latest successful upload for that URL.
C7_OneBlobPerUrl ==
    \A u \in FileUrls :
        /\ Cardinality(NamesOf(u) \cap DOMAIN blobs) <= 1
        /\ latest[u] # << >> => blobs[latest[u][1].name] = latest[u][1].text

\* C7 amended: overwrite per blob name.  The store holds exactly the names
\* uploaded, each with the text of the latest successful upload under that
\* name; function_app.py has one name per URL, scraper.py one name per
\* sanitized title the URL was uploaded with.
C7_OverwritePerName ==
    /\ DOMAIN blobs = {e.name : e \in uploads}
    /\ DOMAIN written = DOMAIN blobs
    /\ \A n \in DOMAIN blobs : blobs[n] = written[n]
    /\ \A u \in FileUrls :
        /\ variant = "function_app" => Cardinality(NamesOf(u)) <= 1
        /\ variant = "scraper" => Cardinality(NamesOf(u)) = Cardinality(TitlesOf(u))

\* scraper.py after a page changed title and text: the URL has two blobs,
\* the new one with the new text.
C7_Witness ==
    /\ variant = "scraper"
    /\ \E u \in FileUrls : Cardinality(NamesOf(u)) = 2
    /\ \E n \in DOMAIN blobs : blobs[n] = <<"v2">>

\* C8: link discovery.  The links returned for a theme page are exactly the
\* expected ones when the fetch succeeded, and none when it failed.
C8_LinkDiscovery ==
    last.op = "discover" =>
        out_links = IF last.outcome = "ok" THEN ExpectedLinks(in_page) ELSE {}

\* C9: write ordering.  The upsert is reached only right after a successful
\* upload of the same item, whose blob is then in the store; when the upsert
\* raises, the error is logged, the loop goes on, the blob just uploaded is
\* still there and the item is not counted.
C9_WriteOrdering ==
    /\ pc = "upsert" =>
        /\ last.op = "upload" /\ last.outcome = "ok" /\ last.url = cur.url
        /\ cur.name \in DOMAIN blobs
        /\ blobs[cur.name] = cur.text
    /\ (last.op = "upsert" /\ last.outcome = "raised") =>
        /\ LogRecord("error", last.url) \in log
        /\ pc \in {"file", "theme"}
        /\ latest[last.url] # << >>
        /\ latest[last.url][1].name \in DOMAIN blobs
        /\ blobs[latest[last.url][1].name] = latest[last.url][1].text
        /\ <<last.theme, last.url>> \notin okItems
        /\ variant = "scraper" => total_processed = Cardinality(okItems)

\* An upsert has just raised on the first run, leaving a blob and no item,
\* and the next link of the theme is up.
C9_Witness ==
    /\ last.op = "upsert" /\ last.outcome = "raised"
    /\ pc = "file"
    /\ run = 1
    /\ db = {}
    /\ DOMAIN blobs # {}

\* C10: referential integrity.  Every stored item names a blob that exists.
C10_ReferentialIntegrity ==
    \A r \in db :
        /\ BlobRef(r) \in DOMAIN blobs
        /\ variant = "scraper" =>
            r.blob_storage_url = container_url \o <<"/">> \o r.blob_filename

\* Items are stored, and a blob that no item names exists beside them.
C10_Witness ==
    /\ db # {}
    /\ \E n \in DOMAIN blobs : \A r \in db : BlobRef(r) # n

====
